---- MODULE Spec2Model ----
(***************************************************************************)
(* A model of evaluation.py, the LLM reliability evaluation pipeline.      *)
(*                                                                         *)
(* Python strings are sequences of one-character strings.  Python floats   *)
(* are kept exact: a ratio is a record [num, den] of integers, and a       *)
(* rounded float is the integer number of its last kept decimal place      *)
(* (hundredths for round(x, 2), milliseconds for round(x, 3), millionths   *)
(* of a dollar for round(x, 6)).                                           *)
(***************************************************************************)
EXTENDS Integers, Sequences, FiniteSets, TLC

(***************************************************************************)
(* Python str                                                              *)
(***************************************************************************)

\* A string literal as the sequence of its characters.
Chars(s) == [i \in 1..Len(s) |-> SubSeq(s, i, i)]

Range(s) == {s[i] : i \in 1..Len(s)}

UpperCase == Chars("ABCDEFGHIJKLMNOPQRSTUVWXYZ")
LowerCase == Chars("abcdefghijklmnopqrstuvwxyz")

\* str.lower() on one character, then on a string.
lower_char(c) ==
    IF \E i \in 1..Len(UpperCase) : UpperCase[i] = c
    THEN LowerCase[CHOOSE i \in 1..Len(UpperCase) : UpperCase[i] = c]
    ELSE c

lower(s) == [i \in 1..Len(s) |-> lower_char(s[i])]

\* The characters str.strip() removes.
Whitespace == {" ", "\t", "\n", "\r"}

\* str.strip(): drop the leading and the trailing whitespace.
strip(s) ==
    LET keep == {i \in 1..Len(s) : s[i] \notin Whitespace}
    IN  IF keep = {} THEN << >>
        ELSE LET lo == CHOOSE i \in keep : \A j \in keep : i <= j
                 hi == CHOOSE i \in keep : \A j \in keep : j <= i
             IN  SubSeq(s, lo, hi)

\* str.split(sep) for a one-character sep: the fragments between the
\* separators, empty fragments included; "" splits into [""].
split(s, sep) ==
    LET \* the positions of the separators, in order
        at   == SelectSeq([i \in 1..Len(s) |-> i], LAMBDA i : s[i] = sep)
        n    == Len(at)
        from == [k \in 1..(n + 1) |-> IF k = 1 THEN 1 ELSE at[k - 1] + 1]
        to   == [k \in 1..(n + 1) |-> IF k = n + 1 THEN Len(s) ELSE at[k] - 1]
    IN  [k \in 1..(n + 1) |-> SubSeq(s, from[k], to[k])]

\* sep.join(parts).
RECURSIVE join(_, _)
join(sep, parts) ==
    IF parts = << >> THEN << >>
    ELSE IF Len(parts) = 1 THEN parts[1]
    ELSE parts[1] \o sep \o join(sep, Tail(parts))

\* k in s: k occurs in s as a contiguous substring.
Contains(s, k) ==
    \E i \in 1..(Len(s) - Len(k) + 1) : SubSeq(s, i, i + Len(k) - 1) = k

(***************************************************************************)
(* difflib.SequenceMatcher(None, a, b).ratio()                             *)
(***************************************************************************)

\* The length from which SequenceMatcher's autojunk heuristic applies to b.
AutojunkLen == 200

\* The "popular" characters of b: with autojunk on and len(b) >= 200, the
\* characters occurring more than len(b) // 100 + 1 times; they start no match.
bpopular(b) ==
    IF Len(b) >= AutojunkLen
    THEN {c \in Range(b) :
            Cardinality({j \in 1..Len(b) : b[j] = c}) > (Len(b) \div 100) + 1}
    ELSE {}

\* j2len: the length of the common run of non-popular characters that ends at
\* a[i], b[j] and stays inside a[alo..], b[blo..].
RECURSIVE j2len(_, _, _, _, _, _, _)
j2len(a, b, pop, alo, blo, i, j) ==
    IF i < alo \/ j < blo THEN 0
    ELSE IF a[i] # b[j] \/ b[j] \in pop THEN 0
    ELSE 1 + j2len(a, b, pop, alo, blo, i - 1, j - 1)

\* How far a match starting at (i, j) grows to the left over equal characters.
RECURSIVE extend_left(_, _, _, _, _, _)
extend_left(a, b, alo, blo, i, j) ==
    IF i > alo /\ j > blo /\ a[i - 1] = b[j - 1]
    THEN 1 + extend_left(a, b, alo, blo, i - 1, j - 1)
    ELSE 0

\* How far a match ending before (i, j) grows to the right over equal characters.
RECURSIVE extend_right(_, _, _, _, _, _)
extend_right(a, b, ahi, bhi, i, j) ==
    IF i < ahi /\ j < bhi /\ a[i] = b[j]
    THEN 1 + extend_right(a, b, ahi, bhi, i + 1, j + 1)
    ELSE 0

\* find_longest_match(alo, ahi, blo, bhi) on a[alo..ahi-1], b[blo..bhi-1]:
\* the longest block, of those the one starting earliest in a, of those the one
\* starting earliest in b; then grown over the popular characters around it.
find_longest_match(a, b, pop, alo, ahi, blo, bhi) ==
    LET \* where a block can end: equal characters, not popular in b
        ends  == {e \in (alo..(ahi - 1)) \X (blo..(bhi - 1)) :
                    a[e[1]] = b[e[2]] /\ b[e[2]] \notin pop}
        len   == [e \in ends |-> j2len(a, b, pop, alo, blo, e[1], e[2])]
        sizes == {len[e] : e \in ends} \cup {0}
        best  == CHOOSE k \in sizes : \A n \in sizes : n <= k
        top   == {e \in ends : len[e] = best}
        first == CHOOSE e \in top :
                    \A f \in top : e[1] < f[1] \/ (e[1] = f[1] /\ e[2] <= f[2])
        i0    == IF best = 0 THEN alo ELSE first[1] - best + 1
        j0    == IF best = 0 THEN blo ELSE first[2] - best + 1
        l     == extend_left(a, b, alo, blo, i0, j0)
        r     == extend_right(a, b, ahi, bhi, i0 + best, j0 + best)
    IN  [i |-> i0 - l, j |-> j0 - l, size |-> best + l + r]

\* get_matching_blocks(), summed: the total size of the blocks found by
\* matching the longest block and then the pieces left and right of it.
RECURSIVE matching_size(_, _, _, _, _, _, _)
matching_size(a, b, pop, alo, ahi, blo, bhi) ==
    LET m == find_longest_match(a, b, pop, alo, ahi, blo, bhi)
    IN  IF m.size = 0 THEN 0
        ELSE m.size
             + (IF alo < m.i /\ blo < m.j
                THEN matching_size(a, b, pop, alo, m.i, blo, m.j) ELSE 0)
             + (IF m.i + m.size < ahi /\ m.j + m.size < bhi
                THEN matching_size(a, b, pop, m.i + m.size, ahi, m.j + m.size, bhi)
                ELSE 0)

\* ratio(): 2.0 * matches / (len(a) + len(b)), and 1.0 for two empty strings.
ratio(a, b) ==
    LET length == Len(a) + Len(b)
    IN  IF length = 0 THEN [num |-> 1, den |-> 1]
        ELSE [num |-> 2 * matching_size(a, b, bpopular(b), 1, Len(a) + 1, 1, Len(b) + 1),
              den |-> length]

\* similarity(a, b).
similarity(a, b) == ratio(lower(a), lower(b))

(***************************************************************************)
(* Python float: round(x, ndigits)                                         *)
(***************************************************************************)

\* The integer nearest to num / den (den > 0) and whether num / den lies
\* exactly halfway between two integers.
Floor(num, den) == num \div den
IsTie(num, den) == 2 * (num - Floor(num, den) * den) = den
Nearest(num, den) ==
    IF 2 * (num - Floor(num, den) * den) > den
    THEN Floor(num, den) + 1 ELSE Floor(num, den)

\* round(x, 2) of the double x = num / den in [0, 1], in hundredths.  Off a
\* tie the double rounds as the exact quotient does.  On a tie, x is the
\* double nearest to (2k + 1) / 200 and round() goes by that double's exact
\* value: up for the k below, down for the others (k = 12, 37, 62, 87 are the
\* doubles that are exact, rounded half to even).
QuotientTieUp ==
    {0, 2, 3, 5, 6, 8, 9, 11, 13, 16, 19, 22, 25, 26, 27, 31, 32, 33, 37, 38,
     39, 40, 44, 45, 46, 50, 51, 52, 53, 54, 55, 63, 64, 65, 66, 67, 68, 75,
     76, 77, 78, 79, 80, 87, 88, 89, 90, 91, 92, 93}

round2(x) ==
    LET k == Floor(100 * x.num, x.den)
    IN  IF IsTie(100 * x.num, x.den)
        THEN (IF k \in QuotientTieUp THEN k + 1 ELSE k)
        ELSE Nearest(100 * x.num, x.den)

\* The same for the double 1 - (u / n), which carries the error of the
\* division and of the subtraction.
ComplementTieUp ==
    {0, 1, 2, 3, 4, 5, 13, 14, 15, 16, 17, 18, 25, 26, 27, 28, 29, 30, 37, 38,
     39, 40, 41, 42, 43, 50, 51, 52, 63, 64, 65, 66, 67, 68, 69, 70, 71, 75,
     76, 77, 78, 79, 87, 88, 89, 90, 91, 92, 93}

round2_complement(u, n) ==
    LET k == Floor(100 * (n - u), n)
    IN  IF IsTie(100 * (n - u), n)
        THEN (IF k \in ComplementTieUp THEN k + 1 ELSE k)
        ELSE Nearest(100 * (n - u), n)

(***************************************************************************)
(* Utility functions                                                       *)
(***************************************************************************)

\* A dict is a function from its keys; d[k] raises KeyError(k) without k.
HasKey(d, k) == k \in DOMAIN d

\* What a call gives back: a value, or the exception it raised.
Value(v) == [ok |-> TRUE, val |-> v]
Raise(exc, arg) == [ok |-> FALSE, exc |-> exc, arg |-> arg]

\* len(s.strip()) > MinClaimLen keeps a fragment.
MinClaimLen == 10

\* extract_claims with >= for >.
extract_claims_ge(response) ==
    LET parts    == split(response, ".")
        stripped == [i \in 1..Len(parts) |-> strip(parts[i])]
    IN  SelectSeq(stripped, LAMBDA s : Len(s) >= MinClaimLen)

\* [s.strip() for s in response.split(".") if len(s.strip()) > 10]
extract_claims(response) ==
    LET parts    == split(response, ".")
        stripped == [i \in 1..Len(parts) |-> strip(parts[i])]
    IN  SelectSeq(stripped, LAMBDA s : Len(s) > MinClaimLen)

\* " ".join(v["text"] for v in vectors)
flatten_context(vectors) ==
    IF \E i \in 1..Len(vectors) : ~HasKey(vectors[i], "text")
    THEN Raise("KeyError", "text")
    ELSE Value(join(<<" ">>, [i \in 1..Len(vectors) |-> vectors[i]["text"]]))

(***************************************************************************)
(* Core evaluators                                                         *)
(***************************************************************************)

relevance_score(user_query, response) == similarity(user_query, response)

expected_keywords ==
    << Chars("cost"), Chars("price"), Chars("address"), Chars("night"),
       Chars("rupees") >>

\* completeness_score looking for the keywords in the query as well.
completeness_score_query(user_query, response) ==
    LET hits == Cardinality({i \in 1..Len(expected_keywords) :
                                Contains(lower(user_query \o response),
                                         expected_keywords[i])})
    IN  [num |-> hits, den |-> Len(expected_keywords)]

\* hits / len(expected_keywords)
completeness_score(user_query, response) ==
    LET hits == Cardinality({i \in 1..Len(expected_keywords) :
                                Contains(lower(response), expected_keywords[i])})
    IN  [num |-> hits, den |-> Len(expected_keywords)]

\* similarity(claim, context_text) < 0.35
ThresholdPercent == 35

\* The test with <= for <.
BelowOrAtThreshold(sim) == 100 * sim.num <= ThresholdPercent * sim.den

BelowThreshold(sim) == 100 * sim.num < ThresholdPercent * sim.den

\* The loop of hallucination_score: the claims, in order, that the test
\* appends to unsupported (similarity is pure: one value per distinct claim).
unsupported_of(claims, context_text) ==
    LET sim == [claim \in Range(claims) |-> similarity(claim, context_text)]
    IN  SelectSeq(claims, LAMBDA claim : BelowThreshold(sim[claim]))

Max(m, n) == IF m >= n THEN m ELSE n

hallucination_score(response, context_text) ==
    LET claims      == extract_claims(response)
        unsupported == unsupported_of(claims, context_text)
    IN  [hallucination_score |->
            round2_complement(Len(unsupported), Max(Len(claims), 1)),
         unsupported_claims  |-> unsupported]

(***************************************************************************)
(* State                                                                   *)
(***************************************************************************)

VARIABLES
    clock,          \* the wall clock time.time() reads, in ticks
    pc,             \* per call of evaluate: where it stands
    chat_json,      \* per call: the caller's conversation record
    context_json,   \* per call: the caller's context record
    locals,         \* per call: the frame of evaluate, a dict of its locals
    outcome,        \* per call: what evaluate returned or raised
    fn_response,    \* a scorer called on its own: its response argument
    fn_context,     \*   its context_text argument
    fn_query,       \*   its user_query argument
    fn_returned     \*   which scorer was called and what it returned

eval_vars == << clock, pc, chat_json, context_json, locals, outcome >>
fn_vars == << fn_response, fn_context, fn_query, fn_returned >>
vars == << clock, pc, chat_json, context_json, locals, outcome,
           fn_response, fn_context, fn_query, fn_returned >>

\* The callers of evaluate.
Calls == {"c1", "c2"}
MainCall == "c1"

\* The clock reads 0..MaxClock; a millisecond is TicksPerMs ticks, an odd
\* number, so that no difference of two readings is half a millisecond.
MaxClock == 2
HalfTicks == 1
TicksPerMs == 2 * HalfTicks + 1

EmptyDict == [k \in {} |-> 0]
Pending == [kind |-> "pending"]

(***************************************************************************)
(* latency_cost_metrics                                                    *)
(***************************************************************************)

\* round(x, 3) of a latency of so many ticks, in milliseconds.
round3(ticks) == Nearest(ticks, TicksPerMs)

\* cost_per_1k = 0.002 dollars, in millionths of a dollar.
CostPer1kMicroUsd == 2000

\* latency_cost_metrics(start_time, tokens_used, cost_per_1k) with time.time()
\* reading now; the cost (tokens_used / 1000) * cost_per_1k is rounded to
\* millionths of a dollar.
latency_cost_metrics(now, start_time, tokens_used, cost_per_1k) ==
    [latency_seconds    |-> round3(now - start_time),
     estimated_cost_usd |-> Nearest(tokens_used * cost_per_1k, 1000)]

(***************************************************************************)
(* evaluate                                                                *)
(***************************************************************************)

\* last_turn taking the first turn of the role, [0] for [-1].
last_turn_first(chat, role) ==
    IF ~HasKey(chat, "conversation_turns")
    THEN Raise("KeyError", "conversation_turns")
    ELSE LET turns == chat["conversation_turns"]
         IN  IF \E i \in 1..Len(turns) : ~HasKey(turns[i], "role")
             THEN Raise("KeyError", "role")
             ELSE LET of_role == SelectSeq(turns, LAMBDA t : t["role"] = role)
                  IN  IF Len(of_role) = 0
                      THEN Raise("IndexError", "list index out of range")
                      ELSE Value(of_role[1])

\* last_turn giving an empty turn when there is none of the role.
last_turn_default(chat, role) ==
    IF ~HasKey(chat, "conversation_turns")
    THEN Raise("KeyError", "conversation_turns")
    ELSE LET turns == chat["conversation_turns"]
         IN  IF \E i \in 1..Len(turns) : ~HasKey(turns[i], "role")
             THEN Raise("KeyError", "role")
             ELSE LET of_role == SelectSeq(turns, LAMBDA t : t["role"] = role)
                  IN  IF Len(of_role) = 0
                      THEN Value([role |-> role])
                      ELSE Value(of_role[Len(of_role)])

\* [t for t in chat_json["conversation_turns"] if t["role"] == role][-1]
last_turn(chat, role) ==
    IF ~HasKey(chat, "conversation_turns")
    THEN Raise("KeyError", "conversation_turns")
    ELSE LET turns == chat["conversation_turns"]
         IN  IF \E i \in 1..Len(turns) : ~HasKey(turns[i], "role")
             THEN Raise("KeyError", "role")
             ELSE LET of_role == SelectSeq(turns, LAMBDA t : t["role"] = role)
                  IN  IF Len(of_role) = 0
                      THEN Raise("IndexError", "list index out of range")
                      ELSE Value(of_role[Len(of_role)])

\* context_json["data"]["vector_data"], then flatten_context of it.
context_text_of(context) ==
    IF ~HasKey(context, "data") THEN Raise("KeyError", "data")
    ELSE IF ~HasKey(context["data"], "vector_data")
    THEN Raise("KeyError", "vector_data")
    ELSE flatten_context(context["data"]["vector_data"])

\* tokens_used=450
TokensUsed == 450

\* The call leaves evaluate by an exception: the frame is gone.
Raises(c, r) ==
    /\ pc' = [pc EXCEPT ![c] = "raised"]
    /\ outcome' = [outcome EXCEPT ![c] = [kind |-> "raise", exc |-> r.exc, arg |-> r.arg]]
    /\ locals' = [locals EXCEPT ![c] = EmptyDict]

\* evaluate(chat, context) is entered; line 66: start = time.time().
Call(c, chat, context) ==
    /\ pc[c] \in {"idle", "returned", "raised"}
    /\ chat_json' = [chat_json EXCEPT ![c] = chat]
    /\ context_json' = [context_json EXCEPT ![c] = context]
    /\ locals' = [locals EXCEPT ![c] = [start |-> clock]]
    /\ outcome' = [outcome EXCEPT ![c] = Pending]
    /\ pc' = [pc EXCEPT ![c] = "line68"]
    /\ UNCHANGED << clock, fn_vars >>

\* Lines 68-69: user_turn, then ai_turn.
SelectTurns(c) ==
    /\ pc[c] = "line68"
    /\ LET user == last_turn(chat_json[c], "User")
           ai   == last_turn(chat_json[c], "AI/Chatbot")
       IN  IF ~user.ok THEN Raises(c, user)
           ELSE IF ~ai.ok THEN Raises(c, ai)
           ELSE /\ locals' = [locals EXCEPT ![c] =
                                 @ @@ [user_turn |-> user.val, ai_turn |-> ai.val]]
                /\ pc' = [pc EXCEPT ![c] = "line71"]
                /\ UNCHANGED outcome
    /\ UNCHANGED << clock, chat_json, context_json, fn_vars >>

\* Lines 71-72: context_vectors and context_text.
Flatten(c) ==
    /\ pc[c] = "line71"
    /\ LET text == context_text_of(context_json[c])
       IN  IF ~text.ok THEN Raises(c, text)
           ELSE /\ locals' = [locals EXCEPT ![c] =
                                 @ @@ [context_vectors |-> context_json[c]["data"]["vector_data"],
                                       context_text    |-> text.val]]
                /\ pc' = [pc EXCEPT ![c] = "line74"]
                /\ UNCHANGED outcome
    /\ UNCHANGED << clock, chat_json, context_json, fn_vars >>

\* Lines 74-76 on the turns and the context text held in frame f: the three
\* scorers on the messages of the two turns.
ScoreFrame(c, f) ==
    /\ pc[c] = "line74"
    /\ IF ~HasKey(f.user_turn, "message") \/ ~HasKey(f.ai_turn, "message")
       THEN Raises(c, Raise("KeyError", "message"))
       ELSE /\ locals' = [locals EXCEPT ![c] =
                 @ @@ [relevance     |-> relevance_score(f.user_turn["message"],
                                                         f.ai_turn["message"]),
                       completeness  |-> completeness_score(f.user_turn["message"],
                                                            f.ai_turn["message"]),
                       hallucination |-> hallucination_score(f.ai_turn["message"],
                                                             f.context_text)]]
            /\ pc' = [pc EXCEPT ![c] = "line78"]
            /\ UNCHANGED outcome
    /\ UNCHANGED << clock, chat_json, context_json, fn_vars >>

\* Score with the turns and the context text kept in module globals, which
\* the call that wrote them last decides.
ScoreShared(c) ==
    \E d \in Calls : HasKey(locals[d], "context_text") /\ ScoreFrame(c, locals[d])

\* Lines 74-76: the locals are those of the call's own frame.
Score(c) == ScoreFrame(c, locals[c])

\* Line 78: metrics = latency_cost_metrics(start, tokens_used=450).
Meter(c) ==
    /\ pc[c] = "line78"
    /\ locals' = [locals EXCEPT ![c] =
                     @ @@ [metrics |-> latency_cost_metrics(clock, locals[c].start,
                                                            TokensUsed, CostPer1kMicroUsd)]]
    /\ pc' = [pc EXCEPT ![c] = "line80"]
    /\ UNCHANGED << clock, chat_json, context_json, outcome, fn_vars >>

\* result_record with the verdict taken from the relevance.
result_record_relevance(f) ==
    [relevance_score        |-> round2(f.relevance),
     completeness_score     |-> round2(f.completeness),
     hallucination_analysis |-> f.hallucination,
     latency_and_cost       |-> f.metrics,
     final_verdict          |-> IF BelowThreshold(f.relevance) THEN "FAIL" ELSE "PASS"]

\* result_record without latency_and_cost when the clock went backwards.
result_record_partial(f) ==
    IF f.metrics.latency_seconds < 0
    THEN [relevance_score        |-> round2(f.relevance),
          completeness_score     |-> round2(f.completeness),
          hallucination_analysis |-> f.hallucination,
          final_verdict          |-> IF Len(f.hallucination.unsupported_claims) > 0
                                     THEN "FAIL" ELSE "PASS"]
    ELSE [relevance_score        |-> round2(f.relevance),
          completeness_score     |-> round2(f.completeness),
          hallucination_analysis |-> f.hallucination,
          latency_and_cost       |-> f.metrics,
          final_verdict          |-> IF Len(f.hallucination.unsupported_claims) > 0
                                     THEN "FAIL" ELSE "PASS"]

\* Lines 80-88: the result record.
result_record(f) ==
    [relevance_score        |-> round2(f.relevance),
     completeness_score     |-> round2(f.completeness),
     hallucination_analysis |-> f.hallucination,
     latency_and_cost       |-> f.metrics,
     final_verdict          |-> IF Len(f.hallucination.unsupported_claims) > 0
                                THEN "FAIL" ELSE "PASS"]

Return(c) ==
    /\ pc[c] = "line80"
    /\ outcome' = [outcome EXCEPT ![c] = [kind |-> "return", val |-> result_record(locals[c])]]
    /\ locals' = [locals EXCEPT ![c] = EmptyDict]
    /\ pc' = [pc EXCEPT ![c] = "returned"]
    /\ UNCHANGED << clock, chat_json, context_json, fn_vars >>

\* The wall clock advances.
Tick ==
    /\ clock < MaxClock
    /\ clock' = clock + 1
    /\ UNCHANGED << pc, chat_json, context_json, locals, outcome, fn_vars >>

\* The wall clock is set back (an NTP step, a manual change of the time).
StepBack ==
    /\ \E t \in 0..(clock - 1) : clock' = t
    /\ UNCHANGED << pc, chat_json, context_json, locals, outcome, fn_vars >>

(***************************************************************************)
(* Inputs                                                                  *)
(***************************************************************************)

QueryCost == Chars("What does the Taj cost?")
QueryPrice == Chars("Price per night?")

\* One supported claim; "OK" is too short to be a claim.
ResponseOk == Chars("Taj costs 900. OK.")
\* A supported claim, then an unsupported one, twice.
ResponseBad == Chars("Taj costs 900. Moon is cheese . Moon is cheese.")
\* No fragment longer than 10 characters.
ResponseShort == Chars("Ok. Sure. Yes.")
\* All five keywords.
ResponseKeywords == Chars("Cost, PRICE, address: 900 rupees a night")
\* Fragments of trimmed length 10 and 11.
ResponseEdge == Chars(" taj cost 9.  taj costs 9 .")
ResponseEmpty == << >>

VectorTaj == [text |-> Chars("hotel taj costs 900")]
VectorNight == [text |-> Chars("rupees per night"), id |-> 7]
VectorNoText == [id |-> 8]

User(m) == [role |-> "User", message |-> m]
Ai(m) == [role |-> "AI/Chatbot", message |-> m]
System(m) == [role |-> "System", message |-> m]
Turns(ts) == [conversation_turns |-> ts]
Vectors(vs) == [data |-> [vector_data |-> vs]]

\* The conversation records evaluate is called with.
Chats ==
    { [id |-> 1],                                   \* no conversation_turns
      Turns(<< >>),
      Turns(<< User(QueryCost) >>),
      Turns(<< Ai(ResponseOk) >>),
      Turns(<< System(QueryCost), System(ResponseOk) >>),
      Turns(<< User(QueryCost), Ai(ResponseOk) >>),
      Turns(<< User(QueryCost), Ai(ResponseBad) >>),
      Turns(<< Ai(ResponseOk), User(QueryCost) >>),
      Turns(<< Ai(ResponseBad), User(QueryPrice), System(ResponseShort),
               User(QueryCost), Ai(ResponseOk), System(ResponseBad) >>),
      Turns(<< User(QueryPrice), Ai(ResponseKeywords) >>),
      Turns(<< User(QueryPrice), Ai(ResponseShort) >>),
      Turns(<< [role |-> "User"], User(QueryCost), [role |-> "AI/Chatbot"],
               Ai(ResponseBad) >>),                 \* earlier turns without message
      Turns(<< User(QueryCost), Ai(ResponseOk), [role |-> "User"] >>),
      Turns(<< User(QueryCost), [role |-> "AI/Chatbot"] >>),
      Turns(<< [message |-> QueryCost], Ai(ResponseOk) >>),   \* a turn without role
      Turns(<< User(QueryCost), Ai(ResponseOk), [message |-> QueryCost] >>) }

\* The context records evaluate is called with.
Contexts ==
    { [id |-> 1],                                   \* no data
      [data |-> [source |-> 1]],                    \* no vector_data
      Vectors(<< >>),
      Vectors(<< VectorTaj, VectorNight >>),
      Vectors(<< VectorTaj, VectorNoText, VectorNight >>) }

\* The records the concurrent callers use.
ConcChats ==
    { Turns(<< User(QueryCost) >>),
      Turns(<< User(QueryCost), Ai(ResponseOk) >>),
      Turns(<< User(QueryPrice), Ai(ResponseBad) >>) }

ConcContexts ==
    { Vectors(<< VectorTaj, VectorNight >>),
      Vectors(<< VectorNoText >>) }

\* The number of repetitions of the supported sentence in the long response.
ManyClaims == 200

\* ManyClaims supported claims, then one unsupported claim.
ResponseLong ==
    [i \in 1..(14 * ManyClaims + 14) |->
        IF i <= 14 * ManyClaims
        THEN Chars("Taj costs 900.")[((i - 1) % 14) + 1]
        ELSE Chars("Moon is cheese")[i - 14 * ManyClaims]]

\* The arguments the scorers are called with on their own.
Responses ==
    { ResponseOk, ResponseBad, ResponseShort, ResponseKeywords, ResponseEdge,
      ResponseEmpty, ResponseLong,
      Chars("abcdefghijkl. ABCDEFG zzzzz"),
      Chars("Nightly price. cost"),
      Chars("..  .           .hotel taj..") }

ContextTexts ==
    { << >>,
      Chars("hotel taj costs 900 rupees per night"),
      Chars("abcdefg zzzz zzzz zzzz zzzz "),
      Chars("moon is cheese"),
      Chars("The moon is made of cheese and the taj stands in Agra") }

Queries == { QueryCost, QueryPrice, ResponseKeywords }

NoCall == [fn |-> "none"]

(***************************************************************************)
(* The scorers called on their own                                         *)
(***************************************************************************)

CallExtractClaims ==
    /\ fn_returned = NoCall
    /\ fn_returned' = [fn |-> "extract_claims", val |-> extract_claims(fn_response)]
    /\ UNCHANGED << eval_vars, fn_response, fn_context, fn_query >>

CallCompletenessScore ==
    /\ fn_returned = NoCall
    /\ fn_returned' = [fn  |-> "completeness_score",
                       val |-> completeness_score(fn_query, fn_response)]
    /\ UNCHANGED << eval_vars, fn_response, fn_context, fn_query >>

CallHallucinationScore ==
    /\ fn_returned = NoCall
    /\ fn_returned' = [fn  |-> "hallucination_score",
                       val |-> hallucination_score(fn_response, fn_context)]
    /\ UNCHANGED << eval_vars, fn_response, fn_context, fn_query >>

(***************************************************************************)
(* Specifications                                                          *)
(***************************************************************************)

InitEval ==
    /\ clock \in 0..MaxClock
    /\ pc = [c \in Calls |-> "idle"]
    /\ chat_json = [c \in Calls |-> EmptyDict]
    /\ context_json = [c \in Calls |-> EmptyDict]
    /\ locals = [c \in Calls |-> EmptyDict]
    /\ outcome = [c \in Calls |-> Pending]

\* evaluate called by one caller, one call after the other.
Init ==
    /\ InitEval
    /\ fn_response = << >>
    /\ fn_context = << >>
    /\ fn_query = << >>
    /\ fn_returned = NoCall

Step(c) ==
    \/ SelectTurns(c)
    \/ Flatten(c)
    \/ Score(c)
    \/ Meter(c)
    \/ Return(c)

Next ==
    \/ \E chat \in Chats, context \in Contexts : Call(MainCall, chat, context)
    \/ Step(MainCall)
    \/ Tick
    \/ StepBack

Spec == Init /\ [][Next]_vars

\* evaluate called by several callers at once.
NextConc ==
    \/ \E c \in Calls :
          \E chat \in ConcChats, context \in ConcContexts : Call(c, chat, context)
    \/ \E c \in Calls : Step(c)
    \/ Tick
    \/ StepBack

SpecConc == Init /\ [][NextConc]_vars

\* A scorer called on its own, on arguments drawn from the sets above.
InitFn ==
    /\ InitEval
    /\ clock = 0
    /\ fn_response \in Responses
    /\ fn_context \in ContextTexts
    /\ fn_query \in Queries
    /\ fn_returned = NoCall

NextFn ==
    \/ CallExtractClaims
    \/ CallCompletenessScore
    \/ CallHallucinationScore

SpecFn == InitFn /\ [][NextFn]_vars
(***************************************************************************)
(* Properties                                                              *)
(***************************************************************************)

Returned(c) == outcome[c].kind = "return"
Raised(c) == outcome[c].kind = "raise"
RaisedWith(c, exc, args) ==
    Raised(c) /\ outcome[c].exc = exc /\ outcome[c].arg \in args

\* The error kinds of the specification, by the exception and its cause.
MissingTurnError(c) == RaisedWith(c, "IndexError", {"list index out of range"})
MissingFieldError(c) == RaisedWith(c, "KeyError", {"text"})
MalformedInputError(c) ==
    RaisedWith(c, "KeyError", {"conversation_turns", "data", "vector_data"})

\* A turn of the given role; the index of the last one.
IsTurnOf(t, role) == HasKey(t, "role") /\ t["role"] = role
LastIndexOf(turns, role) ==
    CHOOSE i \in 1..Len(turns) :
        /\ IsTurnOf(turns[i], role)
        /\ \A j \in (i + 1)..Len(turns) : ~IsTurnOf(turns[j], role)

\* C1: on every record evaluate returns, final_verdict is "FAIL" exactly when
\* unsupported_claims is non-empty and "PASS" exactly when it is empty,
\* whatever the three scores are.
C1_VerdictIffUnsupported ==
    \A c \in Calls :
        Returned(c) =>
            LET r == outcome[c].val
                unsupported == r.hallucination_analysis.unsupported_claims
            IN  /\ r.final_verdict \in {"PASS", "FAIL"}
                /\ r.final_verdict = "FAIL" <=> Len(unsupported) > 0

\* A FAIL verdict was returned with a relevance above the threshold, and so
\* the verdict did not come from the relevance.
C1_Witness ==
    /\ Returned(MainCall)
    /\ outcome[MainCall].val.final_verdict = "FAIL"
    /\ outcome[MainCall].val.relevance_score >= ThresholdPercent

\* C3: a returned record holds the scores of the message of the last "User"
\* turn and of the message of the last "AI/Chatbot" turn, wherever the two
\* stand in the sequence and whatever the other turns are.
C3_ScoresLastTurns ==
    \A c \in Calls :
        Returned(c) =>
            LET turns == chat_json[c]["conversation_turns"]
                user  == turns[LastIndexOf(turns, "User")]
                ai    == turns[LastIndexOf(turns, "AI/Chatbot")]
                text  == context_text_of(context_json[c]).val
                r     == outcome[c].val
            IN  /\ HasKey(user, "message") /\ HasKey(ai, "message")
                /\ r.relevance_score = round2(similarity(user["message"], ai["message"]))
                /\ r.completeness_score =
                      round2(completeness_score(user["message"], ai["message"]))
                /\ r.hallucination_analysis = hallucination_score(ai["message"], text)

\* A record was returned for a conversation with earlier turns of both roles,
\* turns of another role, and the last "AI/Chatbot" turn before the end.
C3_Witness ==
    /\ Returned(MainCall)
    /\ LET turns == chat_json[MainCall]["conversation_turns"]
       IN  /\ Len(turns) = 6
           /\ LastIndexOf(turns, "User") = 4
           /\ LastIndexOf(turns, "AI/Chatbot") = 5
           /\ turns[1]["message"] # turns[5]["message"]
           /\ turns[2]["message"] # turns[4]["message"]

\* The conversation of call c has conversation_turns, and no "User" turn or
\* no "AI/Chatbot" turn in it.
LacksATurn(c) ==
    /\ HasKey(chat_json[c], "conversation_turns")
    /\ LET turns == chat_json[c]["conversation_turns"]
       IN  \/ \A i \in 1..Len(turns) : ~IsTurnOf(turns[i], "User")
           \/ \A i \in 1..Len(turns) : ~IsTurnOf(turns[i], "AI/Chatbot")

EveryTurnHasRole(c) ==
    \A i \in 1..Len(chat_json[c]["conversation_turns"]) :
        HasKey(chat_json[c]["conversation_turns"][i], "role")

\* The call has gone past lines 68-69.
PastSelection(c) == pc[c] \notin {"idle", "line68"}

\* C4 as stated: a call on a conversation without a "User" turn or without
\* an "AI/Chatbot" turn gets no further than lines 68-69 and ends with
\* MissingTurnError.
C4_Original ==
    \A c \in Calls :
        (LacksATurn(c) /\ PastSelection(c)) =>
            pc[c] = "raised" /\ MissingTurnError(c)

\* C4 as amended: such a call gets no further than lines 68-69 and returns
\* no record; it ends with MissingTurnError when every turn has a role field
\* and with KeyError('role') when a turn has none.
C4_MissingTurnRaises ==
    \A c \in Calls :
        (LacksATurn(c) /\ PastSelection(c)) =>
            /\ pc[c] = "raised"
            /\ IF EveryTurnHasRole(c) THEN MissingTurnError(c)
               ELSE RaisedWith(c, "KeyError", {"role"})

\* A call on the empty conversation ended with MissingTurnError.
C4_Witness ==
    /\ chat_json[MainCall] = Turns(<< >>)
    /\ pc[MainCall] = "raised"
    /\ MissingTurnError(MainCall)

\* The record evaluate returns is complete.
CompleteRecord(r) ==
    /\ DOMAIN r = {"relevance_score", "completeness_score", "hallucination_analysis",
                   "latency_and_cost", "final_verdict"}
    /\ DOMAIN r.hallucination_analysis = {"hallucination_score", "unsupported_claims"}
    /\ DOMAIN r.latency_and_cost = {"latency_seconds", "estimated_cost_usd"}

C6_LatencyNonNegative ==
    \A c \in Calls :
        Returned(c) => outcome[c].val.latency_and_cost.latency_seconds >= 0

\* What evaluate makes of a conversation and a context when nothing else
\* runs: the exception, or the returned record without its latency.
Sequential(chat, context) ==
    LET user == last_turn(chat, "User")
        ai   == last_turn(chat, "AI/Chatbot")
        text == context_text_of(context)
    IN  IF ~user.ok THEN user
        ELSE IF ~ai.ok THEN ai
        ELSE IF ~text.ok THEN text
        ELSE IF ~HasKey(user.val, "message") \/ ~HasKey(ai.val, "message")
        THEN Raise("KeyError", "message")
        ELSE Value([relevance_score |->
                        round2(relevance_score(user.val["message"], ai.val["message"])),
                    completeness_score |->
                        round2(completeness_score(user.val["message"], ai.val["message"])),
                    hallucination_analysis |->
                        hallucination_score(ai.val["message"], text.val),
                    estimated_cost_usd |-> 900])   \* 450 tokens at 0.002 a thousand

SequentialTable ==
    [chat \in ConcChats, context \in ConcContexts |-> Sequential(chat, context)]

\* The returned record of call c without its latency.
WithoutLatency(r) ==
    [relevance_score        |-> r.relevance_score,
     completeness_score     |-> r.completeness_score,
     hallucination_analysis |-> r.hallucination_analysis,
     estimated_cost_usd     |-> r.latency_and_cost.estimated_cost_usd]

Finished(c) == pc[c] \in {"returned", "raised"}
Running(c) == pc[c] \notin {"idle", "returned", "raised"}

OwnInputsDecide ==
    \A c \in Calls :
        Finished(c) =>
            LET alone == SequentialTable[chat_json[c], context_json[c]]
            IN  IF alone.ok
                THEN /\ Returned(c)
                     /\ WithoutLatency(outcome[c].val) = alone.val
                     /\ outcome[c].val.final_verdict =
                            (IF Len(alone.val.hallucination_analysis.unsupported_claims) > 0
                             THEN "FAIL" ELSE "PASS")
                ELSE RaisedWith(c, alone.exc, {alone.arg})

InputsKept ==
    \A c \in Calls :
        Running(c) => /\ chat_json'[c] = chat_json[c]
                      /\ context_json'[c] = context_json[c]

\* C10: with calls of evaluate interleaved in any order, every finished call
\* has the outcome its own conversation and context give when it runs alone
\* (the latency aside), so two calls on equal records differ at most in
\* latency_seconds; and no step changes the records of a call under way.
C10_NoSharedState == []OwnInputsDecide /\ [][InputsKept]_vars

\* Two calls on the same records, run interleaved, returned records of
\* different latency.
C10_Witness ==
    /\ Returned("c1") /\ Returned("c2")
    /\ chat_json["c1"] = chat_json["c2"]
    /\ context_json["c1"] = context_json["c2"]
    /\ outcome["c1"].val.latency_and_cost.latency_seconds
          # outcome["c2"].val.latency_and_cost.latency_seconds

(***************************************************************************)
(* Properties of the scorers called on their own                           *)
(***************************************************************************)

Called(fn) == fn_returned.fn = fn

\* C2: the hallucination_score that hallucination_score returns is 1 exactly
\* when it returns no unsupported claim.
C2_ScoreOneIffNoneUnsupported ==
    Called("hallucination_score") =>
        (fn_returned.val.hallucination_score = 100
            <=> Len(fn_returned.val.unsupported_claims) = 0)

\* The number of elements of the set of indices below i.
Before(set, i) == Cardinality({j \in set : j < i})

\* C7: unsupported_claims is extract_claims(response) cut down to the claims
\* of similarity to context_text strictly below 0.35 = 7/20, in their order
\* and as often as they occur.
C7_UnsupportedAreTheClaimsBelow ==
    Called("hallucination_score") =>
        LET claims == extract_claims(fn_response)
            sim    == [claim \in Range(claims) |-> similarity(claim, fn_context)]
            below  == {i \in 1..Len(claims) :
                          20 * sim[claims[i]].num < 7 * sim[claims[i]].den}
            listed == fn_returned.val.unsupported_claims
        IN  /\ Len(listed) = Cardinality(below)
            /\ \A i \in below : listed[Before(below, i) + 1] = claims[i]

\* A claim of similarity exactly 0.35 was extracted and is not listed.
C7_Witness ==
    /\ Called("hallucination_score")
    /\ \E i \in 1..Len(extract_claims(fn_response)) :
          LET claim == extract_claims(fn_response)[i]
              sim   == similarity(claim, fn_context)
          IN  /\ 20 * sim.num = 7 * sim.den
              /\ claim \notin Range(fn_returned.val.unsupported_claims)

\* The fragments of s between periods, as pairs of a first and a last
\* position (an empty fragment has last = first - 1).
Fragments(s) ==
    LET dots   == {i \in 1..Len(s) : s[i] = "."}
        starts == {1} \cup {i + 1 : i \in dots}
        ends   == {i - 1 : i \in dots} \cup {Len(s)}
    IN  {[first |-> lo,
          last  |-> CHOOSE hi \in ends :
                       hi >= lo - 1 /\ \A j \in lo..hi : s[j] # "."] : lo \in starts}

\* The fragment without the whitespace at its two ends.
Trimmed(s, f) ==
    LET inked == {i \in f.first..f.last : s[i] \notin Whitespace}
    IN  IF inked = {} THEN << >>
        ELSE SubSeq(s, CHOOSE i \in inked : \A j \in inked : i <= j,
                       CHOOSE i \in inked : \A j \in inked : j <= i)

\* C8: extract_claims(response) is, in order and with repetitions, the
\* trimmed fragments between periods of trimmed length above 10.
C8_ClaimsAreTheLongFragments ==
    Called("extract_claims") =>
        LET s    == fn_response
            kept == {f \in Fragments(s) : Len(Trimmed(s, f)) > 10}
            got  == fn_returned.val
        IN  /\ Len(got) = Cardinality(kept)
            /\ \A f \in kept :
                  got[Cardinality({g \in kept : g.first < f.first}) + 1] = Trimmed(s, f)
            /\ (s = << >> => got = << >>)

\* A fragment of trimmed length 10 was dropped and one of length 11 kept.
C8_Witness ==
    /\ Called("extract_claims")
    /\ \E f \in Fragments(fn_response) : Len(Trimmed(fn_response, f)) = 10
    /\ \E f \in Fragments(fn_response) : Len(Trimmed(fn_response, f)) = 11
    /\ Len(fn_returned.val) = 1

\* The keyword occurs in s, letter case aside.
Occurs(keyword, s) ==
    \E at \in 0..(Len(s) - Len(keyword)) :
        \A j \in 1..Len(keyword) : lower_char(s[at + j]) = keyword[j]

Checklist ==
    {Chars("cost"), Chars("price"), Chars("address"), Chars("night"), Chars("rupees")}

\* C9: completeness_score(query, response) is the number of the five
\* keywords occurring in response, letter case aside, over 5, whatever the
\* query is; it lies in [0, 1].
C9_CompletenessIsKeywordShare ==
    Called("completeness_score") =>
        LET present == {k \in Checklist : Occurs(k, fn_response)}
            score   == fn_returned.val
        IN  /\ score.den = 5
            /\ score.num = Cardinality(present)
            /\ 0 <= score.num /\ score.num <= score.den

\* A response with all five keywords, some in capitals, scored 1.0 under a
\* query without any.
C9_Witness ==
    /\ Called("completeness_score")
    /\ fn_returned.val.num = 5
    /\ fn_returned.val.num = fn_returned.val.den
    /\ fn_query = QueryCost
    /\ fn_response # lower(fn_response)

====
